---------------------------- MODULE Spec2Model ----------------------------
(***************************************************************************)
(* Model of src/main.py: the TradingBot position engine (open_position,    *)
(* close_position, monitor_position), the Telegram command handlers that   *)
(* drive it, and the asyncio tasks it runs on.                             *)
(*                                                                         *)
(* One action is one run of a coroutine between two points where it really *)
(* yields to the event loop.  `await self.get_order_book()` is not such a  *)
(* point: get_order_book contains no await of its own and calls the        *)
(* blocking pybit client, so the fetch and the session.place_order call    *)
(* that follows it run in the same step.  The yielding points are the      *)
(* Telegram calls (message.answer, bot.send_message) and asyncio.sleep.    *)
(*                                                                         *)
(* Prices and amounts are counted in thousandths (the precision round(.,3) *)
(* keeps), so 100.000 is written 100000.                                   *)
(***************************************************************************)
EXTENDS Integers, Sequences, FiniteSets, TLC

VARIABLES
    active_position,   \* TradingBot.active_position: None or Some(position)
    monitor_task,      \* TradingBot.monitor_task: a task id, or 0 for None
    tasks,             \* the asyncio tasks running monitor_position
    callers,           \* coroutines that call the engine's methods directly
    sellsSinceOpen,    \* history: Sell orders accepted since a position was last recorded
    buysSinceClear,    \* history: Buy orders accepted since the slot was last cleared
    ev                 \* history: what the step just taken did

vars == <<active_position, monitor_task, tasks, callers,
          sellsSinceOpen, buysSinceClear, ev>>

---------------------------------------------------------------------------
(* Configuration read from the environment.                                *)

TARGET_PROFIT_PERCENT == 2

AMOUNT == 1000

(* Bounds of the model.                                                    *)

MaxTasks == 2

MaxCallers == 1

MaxSells == 2

MaxBuys == 2

MaxOrderId == 2

TaskIds == 1..MaxTasks

CallerIds == 1..MaxCallers

OrderIds == 1..MaxOrderId

Prices == {99995, 100000, 102000}

---------------------------------------------------------------------------
(* Python's None and a present value.                                      *)

None == <<>>

Some(x) == <<x>>

(* What session.get_orderbook can deliver to get_order_book: best bid and  *)
(* best ask of a book that is not crossed.                                 *)
Books == {[bid |-> b, ask |-> a] : b \in Prices, a \in Prices} \
            {bk \in [bid : Prices, ask : Prices] : bk.bid > bk.ask}

(* get_order_book: the book as a dict, or None when the request or the     *)
(* parsing of the response raised (the except branch returns nothing).     *)
get_order_book == {None} \cup {Some(bk) : bk \in Books}

(* session.place_order: it raises, answers with retCode != 0, or answers   *)
(* with retCode == 0.                                                      *)
Responses == {"raise", "reject", "ok"}

(* round(n / d) as Python rounds: to nearest, ties to even.                *)
RoundDiv(n, d) ==
    LET q == n \div d
        r == n % d
    IN  IF 2 * r < d THEN q
        ELSE IF 2 * r > d THEN q + 1
        ELSE IF q % 2 = 0 THEN q ELSE q + 1

(* The target cut to 3 decimals instead of rounded.                        *)
calculate_target_truncates(amount) ==
    (amount * (100 + TARGET_PROFIT_PERCENT)) \div 100

(* round(amount * (1 + TARGET_PROFIT_PERCENT / 100), 3)                    *)
calculate_target(amount) ==
    RoundDiv(amount * (100 + TARGET_PROFIT_PERCENT), 100)

---------------------------------------------------------------------------
(* The record of a step.                                                   *)
(*   op      the coroutine that ran                                        *)
(*   who     the task or caller that ran it (0: a command handler)         *)
(*   guard   trade_command found a position and answered without opening   *)
(*   mfeed   monitor_position's own fetch: none, fail, below, hit          *)
(*   feed    the fetch inside open_position/close_position/status_command  *)
(*   side    the order submitted with session.place_order: none, Buy, Sell *)
(*   resp    the gateway's answer to it                                    *)
(*   open    open_position's return value in this step                     *)
(*   close   close_position's progress: False, pending (suspended in       *)
(*           send_notification), True                                      *)
(*   notify  the outcome of bot.send_message when the step resumed from it *)
(*   spawned the task create_task made in this step, or 0                  *)
(*   cancel  the task on which cancel() was called in this step, or 0      *)
(*   reply   what a command handler answered                               *)
(*   ask     the ask that open_position fetched, 0 without one             *)
(*   bid     the bid that monitor_position fetched, 0 without one          *)
NoEv ==
    [op |-> "init", who |-> 0, guard |-> FALSE, mfeed |-> "none",
     feed |-> "none", side |-> "none", resp |-> "none", open |-> "none",
     close |-> "none", notify |-> "none", spawned |-> 0, cancel |-> 0,
     reply |-> "none", ask |-> 0, bid |-> 0]

AskOf(book) == IF book = None THEN 0 ELSE book[1].ask

BidOf(book) == IF book = None THEN 0 ELSE book[1].bid

FeedOf(book) == IF book = None THEN "fail" ELSE "ok"

Alive == {t \in TaskIds : tasks[t].pc # "dead"}

FreeTasks == {t \in TaskIds : tasks[t].pc = "dead"}

NewTask == CHOOSE t \in FreeTasks : \A u \in FreeTasks : t <= u

DeadTask == [pc |-> "dead", must_cancel |-> FALSE]

Init ==
    /\ active_position = None
    /\ monitor_task = 0
    /\ tasks = [t \in TaskIds |-> DeadTask]
    /\ callers = [c \in CallerIds |-> "idle"]
    /\ sellsSinceOpen = 0
    /\ buysSinceClear = 0
    /\ ev = NoEv

---------------------------------------------------------------------------
(* open_position with create_task moved in front of the test of retCode.   *)
open_position_spawn_first(slot, book, resp, oid) ==
    IF resp = "ok" /\ book # None
    THEN [ret   |-> TRUE,
          slot  |-> Some([order_id      |-> oid,
                          symbol        |-> "SYMBOL",
                          entry_price   |-> book[1].ask,
                          amount        |-> AMOUNT,
                          target_price  |-> calculate_target(book[1].ask),
                          target_amount |-> calculate_target(AMOUNT)]),
          spawn |-> TRUE]
    ELSE [ret |-> FALSE, slot |-> slot, spawn |-> TRUE]

(* TradingBot.open_position, from its first line to its return: the Buy is *)
(* submitted whatever the fetch returned; with retCode == 0 the position   *)
(* is built from order_book.get('ask'), which raises on a missing book and *)
(* lands in the except branch.  The result names the return value, the     *)
(* slot afterwards and whether create_task was reached.                    *)
open_position(slot, book, resp, oid) ==
    IF resp = "ok" /\ book # None
    THEN [ret   |-> TRUE,
          slot  |-> Some([order_id      |-> oid,
                          symbol        |-> "SYMBOL",
                          entry_price   |-> book[1].ask,
                          amount        |-> AMOUNT,
                          target_price  |-> calculate_target(book[1].ask),
                          target_amount |-> calculate_target(AMOUNT)]),
          spawn |-> TRUE]
    ELSE [ret |-> FALSE, slot |-> slot, spawn |-> FALSE]

(* close_position that, when the Sell did not go through, moves the target *)
(* of the position to the bid it fetched.                                  *)
close_position_retargets(slot, book, resp) ==
    [close |-> IF resp = "ok" /\ book # None /\ slot # None
               THEN "pending" ELSE "False",
     slot  |-> IF resp # "ok" /\ book # None /\ slot # None
               THEN Some([slot[1] EXCEPT !.target_price = calculate_target(book[1].bid)])
               ELSE slot]

(* close_position with the slot cleared in front of the test of retCode.   *)
close_position_clear_first(slot, book, resp) ==
    [close |-> IF resp = "ok" /\ book # None /\ slot # None
               THEN "pending" ELSE "False",
     slot  |-> IF resp = "ok" THEN slot ELSE None]

(* TradingBot.close_position up to `await send_notification(...)`: the     *)
(* Sell is submitted whatever the fetch returned; with retCode == 0 the    *)
(* profit is computed from order_book.get('bid') and                       *)
(* self.active_position['entry_price'], either of which raises on None.    *)
(* "pending": the coroutine is suspended in send_notification.             *)
close_position(slot, book, resp) ==
    [close |-> IF resp = "ok" /\ book # None /\ slot # None
               THEN "pending" ELSE "False",
     slot  |-> slot]

(* cancel() left out: the handle is dropped and nothing is requested.      *)
cancel_nothing(ts, t) == ts

(* Task.cancel(): a request; the CancelledError is delivered when the task *)
(* next runs.  A finished task ignores it.                                 *)
cancel(ts, t) ==
    IF t # 0 /\ ts[t].pc # "dead"
    THEN [ts EXCEPT ![t].must_cancel = TRUE]
    ELSE ts

(* close_position with `self.active_position = None` left out.             *)
close_position_resume_keeps_slot(slot, mt, ts) ==
    [close |-> "True", slot |-> slot, monitor_task |-> 0, tasks |-> cancel(ts, mt)]

(* TradingBot.close_position after send_notification returned (it returns  *)
(* whether or not bot.send_message raised): clear the slot, cancel the     *)
(* task in monitor_task if there is one, return True.                      *)
close_position_resume(slot, mt, ts) ==
    [close |-> "True", slot |-> None, monitor_task |-> 0, tasks |-> cancel(ts, mt)]

(* monitor_position answering a missing book with `continue` as well.      *)
monitor_check_continues(slot, mbook) ==
    IF mbook = None THEN "continue"
    ELSE IF mbook[1].bid >= slot[1].target_price THEN "hit"
    ELSE "below"

(* monitor_position comparing the ask, not the bid, with the target.       *)
monitor_check_on_ask(slot, mbook) ==
    IF mbook = None THEN "fail"
    ELSE IF "bid" \notin DOMAIN mbook[1] \/ "ask" \notin DOMAIN mbook[1]
         THEN "continue"
    ELSE IF mbook[1].ask >= slot[1].target_price THEN "hit"
    ELSE "below"

(* The test of monitor_position on the book it fetched.  A missing book    *)
(* raises at order_book.get and is caught by the loop's except branch.     *)
(* dict.get yields None for a key the dict lacks, and then the loop takes  *)
(* its `continue`; get_order_book never returns such a dict, because a     *)
(* book that is present holds two floats.                                  *)
monitor_check(slot, mbook) ==
    IF mbook = None THEN "fail"
    ELSE IF "bid" \notin DOMAIN mbook[1] \/ "ask" \notin DOMAIN mbook[1]
         THEN "continue"
    ELSE IF mbook[1].bid >= slot[1].target_price THEN "hit"
    ELSE "below"

(* monitor_position without the try/except around the iteration: the       *)
(* exception raised on a missing book ends the task.                       *)
monitor_next_pc_uncaught(m, close) ==
    IF m = "continue" THEN "loop"
    ELSE IF m = "fail" THEN "dead"
    ELSE IF m = "hit" /\ close = "pending" THEN "notify"
    ELSE "sleep"

(* Where an iteration of monitor_position leaves its task: `continue` goes *)
(* back to the top of the loop without asyncio.sleep; a close_position     *)
(* that got its Sell through is suspended in send_notification; every      *)
(* other outcome, a caught exception included, reaches asyncio.sleep(0.5). *)
monitor_next_pc(m, close) ==
    IF m = "continue" THEN "loop"
    ELSE IF m = "hit" /\ close = "pending" THEN "notify"
    ELSE "sleep"

(* send_notification without its try/except: the exception of              *)
(* bot.send_message reaches close_position.                                *)
send_notification_reraises(delivered) ==
    IF delivered THEN "returned" ELSE "raised"

(* send_notification: bot.send_message delivered the text or raised; the   *)
(* except branch logs the exception, so the coroutine returns either way.  *)
send_notification(delivered) == "returned"

(* TradingBot.close_position from the return of send_notification on; had  *)
(* send_notification raised, the except branch of close_position would     *)
(* return False with nothing assigned.                                     *)
close_position_after(outcome, slot, mt, ts) ==
    IF outcome = "returned"
    THEN close_position_resume(slot, mt, ts)
    ELSE [close |-> "False", slot |-> slot, monitor_task |-> mt, tasks |-> ts]

---------------------------------------------------------------------------
(* A call of open_position by `who` inside the coroutine `op`.             *)
OpenCall(op, who, book, resp, oid) ==
    LET r == open_position(active_position, book, resp, oid)
        t == IF r.spawn THEN NewTask ELSE 0
    IN  /\ active_position' = r.slot
        /\ monitor_task' = IF r.spawn THEN t ELSE monitor_task
        /\ tasks' = IF r.spawn
                    THEN [tasks EXCEPT ![t] = [pc |-> "start", must_cancel |-> FALSE]]
                    ELSE tasks
        /\ buysSinceClear' = IF resp = "ok" THEN buysSinceClear + 1 ELSE buysSinceClear
        /\ sellsSinceOpen' = IF r.ret THEN 0 ELSE sellsSinceOpen
        /\ ev' = [NoEv EXCEPT !.op = op, !.who = who, !.feed = FeedOf(book),
                              !.ask = AskOf(book),
                              !.side = "Buy", !.resp = resp,
                              !.open = IF r.ret THEN "True" ELSE "False",
                              !.spawned = t,
                              !.reply = IF op = "trade_command"
                                        THEN (IF r.ret THEN "opened" ELSE "error")
                                        ELSE "none"]

(* The order ids the exchange can assign to a new order.                   *)
FreshOrderIds ==
    IF active_position = None THEN OrderIds
    ELSE OrderIds \ {active_position[1].order_id}

(* trade_command: the guard on active_position, then open_position, then   *)
(* the answer.                                                             *)
trade_command ==
    IF active_position # None
    THEN /\ ev' = [NoEv EXCEPT !.op = "trade_command", !.guard = TRUE,
                               !.reply = "already_open"]
         /\ UNCHANGED <<active_position, monitor_task, tasks, callers,
                        sellsSinceOpen, buysSinceClear>>
    ELSE /\ FreeTasks # {}
         /\ buysSinceClear < MaxBuys
         /\ \E book \in get_order_book, resp \in Responses, oid \in FreshOrderIds :
                OpenCall("trade_command", 0, book, resp, oid)
         /\ UNCHANGED callers

(* status_command that drops the position when its fetch fails.            *)
status_command_drops_slot ==
    /\ \/ /\ active_position = None
          /\ ev' = [NoEv EXCEPT !.op = "status_command", !.reply = "no_position"]
          /\ UNCHANGED active_position
       \/ /\ active_position # None
          /\ \E book \in get_order_book :
                /\ ev' = [NoEv EXCEPT !.op = "status_command", !.feed = FeedOf(book),
                                      !.reply = IF book = None THEN "unhandled_error"
                                                ELSE "snapshot"]
                /\ active_position' = IF book = None THEN None ELSE active_position
    /\ UNCHANGED <<monitor_task, tasks, callers, sellsSinceOpen, buysSinceClear>>

(* status_command: with a position it fetches the book and answers with a  *)
(* snapshot; order_book.get on a missing book raises out of the handler.   *)
status_command ==
    /\ \/ /\ active_position = None
          /\ ev' = [NoEv EXCEPT !.op = "status_command", !.reply = "no_position"]
       \/ /\ active_position # None
          /\ \E book \in get_order_book :
                ev' = [NoEv EXCEPT !.op = "status_command", !.feed = FeedOf(book),
                                   !.reply = IF book = None THEN "unhandled_error"
                                             ELSE "snapshot"]
    /\ UNCHANGED <<active_position, monitor_task, tasks, callers,
                   sellsSinceOpen, buysSinceClear>>

(* start_command: the help text.                                           *)
start_command ==
    /\ ev' = [NoEv EXCEPT !.op = "start_command", !.reply = "help"]
    /\ UNCHANGED <<active_position, monitor_task, tasks, callers,
                   sellsSinceOpen, buysSinceClear>>

---------------------------------------------------------------------------
(* One iteration of monitor_position by task t, from the top of the loop   *)
(* to the next suspension: asyncio.sleep(0.5), or send_notification inside *)
(* the close_position it called.                                           *)
monitor_position(t) ==
    /\ tasks[t].pc \in {"start", "sleep", "loop"}
    /\ ~tasks[t].must_cancel
    /\ \/ /\ active_position = None
          /\ tasks' = [tasks EXCEPT ![t].pc = "sleep"]
          /\ ev' = [NoEv EXCEPT !.op = "monitor_position", !.who = t]
          /\ UNCHANGED <<active_position, monitor_task, callers,
                         sellsSinceOpen, buysSinceClear>>
       \/ /\ active_position # None
          /\ \E mbook \in get_order_book :
                LET m == monitor_check(active_position, mbook)
                IN  \/ /\ m # "hit"
                       /\ tasks' = [tasks EXCEPT ![t].pc = monitor_next_pc(m, "none")]
                       /\ ev' = [NoEv EXCEPT !.op = "monitor_position", !.who = t,
                                             !.mfeed = m, !.bid = BidOf(mbook)]
                       /\ UNCHANGED <<active_position, monitor_task, callers,
                                      sellsSinceOpen, buysSinceClear>>
                    \/ /\ m = "hit"
                       /\ sellsSinceOpen < MaxSells
                       /\ \E book \in get_order_book, resp \in Responses :
                             LET r == close_position(active_position, book, resp)
                             IN  /\ active_position' = r.slot
                                 /\ tasks' = [tasks EXCEPT ![t].pc =
                                                monitor_next_pc(m, r.close)]
                                 /\ sellsSinceOpen' = IF resp = "ok"
                                                      THEN sellsSinceOpen + 1
                                                      ELSE sellsSinceOpen
                                 /\ ev' = [NoEv EXCEPT !.op = "monitor_position",
                                                       !.who = t, !.mfeed = m,
                                                       !.bid = BidOf(mbook),
                                                       !.feed = FeedOf(book),
                                                       !.side = "Sell", !.resp = resp,
                                                       !.close = r.close]
                                 /\ UNCHANGED <<monitor_task, callers, buysSinceClear>>

(* Task t resumes in close_position when send_notification returns, clears *)
(* the slot, cancels self.monitor_task, returns True to monitor_position   *)
(* and reaches asyncio.sleep(0.5).                                         *)
monitor_resume(t) ==
    /\ tasks[t].pc = "notify"
    /\ ~tasks[t].must_cancel
    /\ \E sent \in BOOLEAN :
          LET r == close_position_after(send_notification(sent),
                                        active_position, monitor_task, tasks)
          IN  /\ active_position' = r.slot
              /\ monitor_task' = r.monitor_task
              /\ tasks' = [r.tasks EXCEPT ![t].pc = "sleep"]
              /\ buysSinceClear' = IF r.close = "True" THEN 0 ELSE buysSinceClear
              /\ ev' = [NoEv EXCEPT !.op = "monitor_resume", !.who = t,
                                    !.close = r.close,
                                    !.notify = IF sent THEN "sent" ELSE "failed",
                                    !.cancel = IF r.close = "True"
                                               THEN monitor_task ELSE 0]
              /\ UNCHANGED <<callers, sellsSinceOpen>>

(* The event loop runs a task that has a cancellation pending: the         *)
(* CancelledError is raised at the point where the task is suspended (or   *)
(* before its first line); it is not an Exception, so no except branch of  *)
(* send_notification, close_position or monitor_position catches it, and   *)
(* the task ends.                                                          *)
task_cancelled(t) ==
    /\ tasks[t].pc # "dead"
    /\ tasks[t].must_cancel
    /\ tasks' = [tasks EXCEPT ![t] = DeadTask]
    /\ ev' = [NoEv EXCEPT !.op = "task_cancelled", !.who = t]
    /\ UNCHANGED <<active_position, monitor_task, callers,
                   sellsSinceOpen, buysSinceClear>>

---------------------------------------------------------------------------
(* The engine's methods called by a coroutine other than the handlers and  *)
(* the monitor.                                                            *)

(* Caller c runs TradingBot.open_position.                                 *)
call_open_position(c) ==
    /\ callers[c] = "idle"
    /\ FreeTasks # {}
    /\ buysSinceClear < MaxBuys
    /\ \E book \in get_order_book, resp \in Responses, oid \in FreshOrderIds :
          OpenCall("open_position", c, book, resp, oid)
    /\ UNCHANGED callers

(* Caller c runs TradingBot.close_position up to its return or to          *)
(* send_notification.                                                      *)
call_close_position(c) ==
    /\ callers[c] = "idle"
    /\ sellsSinceOpen < MaxSells
    /\ \E book \in get_order_book, resp \in Responses :
          LET r == close_position(active_position, book, resp)
          IN  /\ active_position' = r.slot
              /\ callers' = [callers EXCEPT ![c] =
                               IF r.close = "pending" THEN "notify" ELSE "idle"]
              /\ sellsSinceOpen' = IF resp = "ok" THEN sellsSinceOpen + 1
                                   ELSE sellsSinceOpen
              /\ ev' = [NoEv EXCEPT !.op = "close_position", !.who = c,
                                    !.feed = FeedOf(book), !.side = "Sell",
                                    !.resp = resp, !.close = r.close]
              /\ UNCHANGED <<monitor_task, tasks, buysSinceClear>>

(* Caller c resumes in close_position when send_notification returns.      *)
call_close_resume(c) ==
    /\ callers[c] = "notify"
    /\ \E sent \in BOOLEAN :
          LET r == close_position_after(send_notification(sent),
                                        active_position, monitor_task, tasks)
          IN  /\ active_position' = r.slot
              /\ monitor_task' = r.monitor_task
              /\ tasks' = r.tasks
              /\ callers' = [callers EXCEPT ![c] = "idle"]
              /\ buysSinceClear' = IF r.close = "True" THEN 0 ELSE buysSinceClear
              /\ ev' = [NoEv EXCEPT !.op = "close_position_resume", !.who = c,
                                    !.close = r.close,
                                    !.notify = IF sent THEN "sent" ELSE "failed",
                                    !.cancel = IF r.close = "True"
                                               THEN monitor_task ELSE 0]
              /\ UNCHANGED sellsSinceOpen

---------------------------------------------------------------------------
(* The program: the three command handlers and the monitoring tasks.       *)
Next ==
    \/ trade_command
    \/ status_command
    \/ start_command
    \/ \E t \in TaskIds : monitor_position(t)
    \/ \E t \in TaskIds : monitor_resume(t)
    \/ \E t \in TaskIds : task_cancelled(t)

Spec == Init /\ [][Next]_vars

(* The engine under any caller: the program, plus coroutines that call     *)
(* open_position and close_position themselves.                            *)
EngineNext ==
    \/ Next
    \/ \E c \in CallerIds : call_open_position(c)
    \/ \E c \in CallerIds : call_close_position(c)
    \/ \E c \in CallerIds : call_close_resume(c)

EngineSpec == Init /\ [][EngineNext]_vars

(* The program under the scheduling of the asyncio event loop: a task      *)
(* whose sleep timer has fired, whose send_notification has returned or    *)
(* whose cancellation is pending is run.  Nothing obliges a user to send   *)
(* commands.                                                               *)
LiveSpec ==
    /\ Spec
    /\ \A t \in TaskIds : /\ WF_vars(monitor_position(t))
                          /\ WF_vars(monitor_resume(t))
                          /\ WF_vars(task_cancelled(t))

TypeOK ==
    /\ active_position = None \/ Len(active_position) = 1
    /\ monitor_task \in 0..MaxTasks
    /\ \A t \in TaskIds : tasks[t].pc \in {"dead", "start", "sleep", "notify", "loop"}
    /\ \A c \in CallerIds : callers[c] \in {"idle", "notify"}
    /\ sellsSinceOpen \in 0..MaxSells
    /\ buysSinceClear \in 0..MaxBuys

---------------------------------------------------------------------------
(* C1: between the recording of a position and the clearing of the slot,   *)
(* at most one Sell order is accepted by the gateway.                      *)
C1_NoDoubleSell ==
    active_position # None => sellsSinceOpen <= 1

(* C2: a /trade handled while a position is set submits no Buy and starts  *)
(* no task, and the accepted Buy orders not yet followed by a clearing of  *)
(* the slot are never more than one.                                       *)
C2_AtMostOneOpenBuy ==
    /\ ev.guard => ev.side = "none" /\ ev.spawned = 0
    /\ buysSinceClear <= 1

(* The part of C2 that concerns the handler's guard alone: a /trade        *)
(* handled while a position is set changes nothing in the engine.          *)
TradeGuardKeepsPosition ==
    [][(ev'.op = "trade_command" /\ active_position # None)
          => /\ ev'.guard /\ ev'.side = "none" /\ ev'.spawned = 0
             /\ UNCHANGED <<active_position, monitor_task, tasks>>]_vars

(* C3: open_position invoked while a position is set returns False,        *)
(* submits no Buy, creates no task and leaves the position untouched.      *)
C3_OpenGuarded ==
    [][(ev'.open # "none" /\ active_position # None)
          => /\ ev'.open = "False"
             /\ ev'.side = "none"
             /\ ev'.spawned = 0
             /\ UNCHANGED <<active_position, monitor_task, tasks>>]_vars

(* C4: close_position invoked while there is no position returns False,    *)
(* submits no Sell, sends no notification and leaves active_position and   *)
(* monitor_task unchanged.                                                 *)
C4_CloseWithoutPosition ==
    [][(ev'.op \in {"close_position", "monitor_position"}
          /\ ev'.close # "none" /\ active_position = None)
          => /\ ev'.close = "False"
             /\ ev'.side = "none"
             /\ UNCHANGED <<active_position, monitor_task>>]_vars

(* C5: a close_position invoked by another caller while the monitor's      *)
(* close_position for the position is suspended in send_notification       *)
(* submits no second Sell and returns False.                               *)
C5_RaceFreeClose ==
    [][(ev'.op = "close_position" /\ active_position # None
          /\ \E t \in TaskIds : tasks[t].pc = "notify" /\ ~tasks[t].must_cancel)
          => /\ ev'.close = "False"
             /\ ev'.side = "none"
             /\ sellsSinceOpen' <= 1]_vars

(* C6: a failed fetch inside open_position or close_position makes it      *)
(* return False with no order submitted; neither returns False after the   *)
(* gateway accepted its order.                                             *)
C6_FeedFailureBeforeOrder ==
    /\ (ev.feed = "fail" /\ ev.op # "status_command") => ev.side = "none"
    /\ ev.open = "False" => ev.resp # "ok"
    /\ ev.close = "False" => ev.resp # "ok"

(* C7: when close_position returns False because the gateway rejected the  *)
(* Sell, the position is unchanged, no notification is sent, no task is    *)
(* cancelled or ended, and the monitor that called it is at its sleep,     *)
(* from which its next iteration tests the position again.                 *)
C7_FailedCloseKeepsPosition ==
    [][/\ (ev'.close = "False" /\ ev'.resp \in {"reject", "raise"})
          => /\ active_position # None
             /\ active_position' = active_position
             /\ monitor_task' = monitor_task
             /\ ev'.notify = "none" /\ ev'.cancel = 0
             /\ tasks'[ev'.who] = [pc |-> "sleep", must_cancel |-> FALSE]
             /\ \A t \in TaskIds \ {ev'.who} : tasks'[t] = tasks[t]
       /\ (ev'.op = "monitor_position" /\ active_position # None)
          => ev'.mfeed # "none"]_vars

C7_Witness ==
    /\ ev.op = "monitor_position" /\ ev.close = "False" /\ ev.resp = "reject"
    /\ active_position # None
    /\ tasks[ev.who].pc = "sleep"

(* C8: when open_position returns False the slot is still None and no task *)
(* was created; when it returns True the slot is populated and exactly one *)
(* new monitoring task was created in the same step.                       *)
C8_FailedOpenLeavesIdle ==
    [][/\ ev'.open = "False"
          => /\ active_position = None /\ active_position' = None
             /\ monitor_task' = monitor_task
             /\ tasks' = tasks
             /\ ev'.spawned = 0
       /\ ev'.open = "True"
          => /\ active_position' # None
             /\ ev'.spawned \in TaskIds
             /\ tasks[ev'.spawned].pc = "dead"
             /\ tasks'[ev'.spawned] = [pc |-> "start", must_cancel |-> FALSE]
             /\ monitor_task' = ev'.spawned
             /\ \A t \in TaskIds \ {ev'.spawned} : tasks'[t] = tasks[t]]_vars

C8_Witness ==
    /\ ev.open = "False" /\ ev.side = "Buy"
    /\ active_position = None /\ Alive = {}

(* C9: in every state another task can observe, a position is set if and   *)
(* only if exactly one monitoring task exists that has not terminated.     *)
C9_PositionIffOneMonitor ==
    active_position # None <=> Cardinality(Alive) = 1

(* C10: at most one monitoring task is alive at any time.                  *)
C10_AtMostOneMonitorAlive ==
    Cardinality(Alive) <= 1

(* C11: a monitoring task whose close_position returned True is left at    *)
(* asyncio.sleep with its own cancellation requested; a task with a        *)
(* cancellation pending runs no further iteration and no close_position,   *)
(* whatever position is set meanwhile: its only step is its termination.   *)
C11_ClosedMonitorStops ==
    [][/\ (ev'.op = "monitor_resume" /\ ev'.close = "True")
          => tasks'[ev'.who] = [pc |-> "sleep", must_cancel |-> TRUE]
       /\ \A t \in TaskIds :
             (tasks[t].must_cancel
                /\ \/ tasks'[t] # tasks[t]
                   \/ /\ ev'.who = t
                      /\ ev'.op \in {"monitor_position", "monitor_resume",
                                     "task_cancelled"})
                => /\ ev'.op = "task_cancelled" /\ ev'.who = t
                   /\ tasks'[t] = DeadTask
                   /\ ev'.mfeed = "none" /\ ev'.side = "none"
                   /\ active_position' = active_position]_vars

C11_Witness ==
    \E t \in TaskIds :
       /\ tasks[t] = [pc |-> "sleep", must_cancel |-> TRUE]
       /\ active_position # None
       /\ monitor_task \in TaskIds \ {t}

(* The step just taken met no feed failure, no bid below the target and no *)
(* refusal by the gateway.                                                 *)
GoodStep ==
    /\ ev.mfeed \notin {"fail", "below", "continue"}
    /\ ev.feed # "fail"
    /\ ev.resp \notin {"raise", "reject"}

(* C12: if from some point on every fetch succeeds with the bid at the     *)
(* target and the gateway accepts, an open position is eventually closed   *)
(* (the slot becomes None); the notification is attempted in the one step  *)
(* that clears the slot, after an accepted Sell; and a /status handled     *)
(* while the slot is None answers that there is no open position.          *)
C12_EventuallyClosed ==
    /\ (<>[]GoodStep) => ((active_position # None) ~> (active_position = None))
    /\ [][/\ ev'.notify # "none"
             => /\ active_position # None /\ active_position' = None
                /\ sellsSinceOpen >= 1
                /\ ev'.close = "True"
          /\ (ev'.op = "status_command" /\ active_position = None)
             => ev'.reply = "no_position"]_vars

C12_Witness ==
    /\ ev.op = "monitor_resume" /\ ev.notify # "none"
    /\ active_position = None
    /\ sellsSinceOpen = 1

(* C13: when bot.send_message fails after an accepted Sell, close_position *)
(* still returns True, the slot is cleared, monitor_task is reset and the  *)
(* task it named has its cancellation requested, as when the message was   *)
(* delivered.                                                              *)
C13_NotifyFailureNotEscalated ==
    [][ev'.notify \in {"failed", "sent"}
          => /\ ev'.close = "True"
             /\ active_position' = None
             /\ monitor_task' = 0
             /\ ev'.cancel = monitor_task
             /\ monitor_task # 0 => tasks'[monitor_task].must_cancel]_vars

C13_Witness ==
    /\ ev.op = "monitor_resume" /\ ev.notify = "failed"
    /\ ev.close = "True"
    /\ active_position = None /\ monitor_task = 0
    /\ tasks[ev.who].must_cancel

(* C14: a /status, in each of its branches and between any other steps,    *)
(* leaves active_position, monitor_task and the tasks unchanged and        *)
(* submits no order.                                                       *)
C14_StatusReadOnly ==
    [][ev'.op = "status_command"
          => /\ UNCHANGED <<active_position, monitor_task, tasks, callers>>
             /\ ev'.side = "none" /\ ev'.resp = "none"
             /\ ev'.spawned = 0 /\ ev'.cancel = 0
             /\ UNCHANGED <<sellsSinceOpen, buysSinceClear>>]_vars

C14_Witness ==
    /\ ev.op = "status_command" /\ ev.feed = "fail"
    /\ active_position # None
    /\ \E t \in TaskIds : tasks[t].pc = "notify"

(* C15: the slot changes only when open_position records a position in    *)
(* the empty slot and when a close_position that returns True clears it;   *)
(* a position that is set therefore keeps its entry_price, amount,         *)
(* target_price and target_amount, which are the values computed at open.  *)
C15_PositionFrozen ==
    /\ [][active_position' # active_position
             => \/ active_position = None /\ ev'.open = "True"
                \/ active_position # None /\ active_position' = None
                      /\ ev'.close = "True"]_vars
    /\ [](active_position # None
             => /\ active_position[1].amount = AMOUNT
                /\ active_position[1].target_price
                      = calculate_target(active_position[1].entry_price)
                /\ active_position[1].target_amount = calculate_target(AMOUNT))

C15_Witness ==
    /\ ev.op = "trade_command" /\ ev.guard
    /\ active_position # None
    /\ sellsSinceOpen >= 1

(* t is x / 100 rounded to a nearest integer (either one on a tie).        *)
IsRounded(t, x) == 2 * (100 * t - x) <= 100 /\ 2 * (x - 100 * t) <= 100

(* C16: a successful open_position records as entry_price the ask it       *)
(* fetched, as target_price entry_price * (1 + TARGET_PROFIT_PERCENT/100)  *)
(* and as target_amount AMOUNT * (1 + TARGET_PROFIT_PERCENT/100), each     *)
(* rounded to 3 decimals; an ask of 100.000 at 2% gives 102.000.           *)
C16_TargetArithmetic ==
    ev.open = "True"
       => /\ active_position # None
          /\ active_position[1].entry_price = ev.ask
          /\ ev.ask \in Prices
          /\ active_position[1].amount = AMOUNT
          /\ IsRounded(active_position[1].target_price,
                       ev.ask * (100 + TARGET_PROFIT_PERCENT))
          /\ IsRounded(active_position[1].target_amount,
                       AMOUNT * (100 + TARGET_PROFIT_PERCENT))
          /\ (ev.ask = 100000 /\ TARGET_PROFIT_PERCENT = 2)
                => active_position[1].target_price = 102000

C16_Witness ==
    /\ ev.open = "True" /\ ev.ask = 99995
    /\ active_position # None
    /\ active_position[1].target_price = 101995

(* C17: an iteration that met a feed failure or a failed close_position    *)
(* leaves its task at asyncio.sleep, uncancelled, with the position as it  *)
(* was; a monitoring task ends only by the delivery of a cancellation, and *)
(* a cancellation is requested only by the task's own close_position       *)
(* returning True.                                                         *)
C17_MonitorSurvivesFailures ==
    [][\A t \in TaskIds :
          /\ (ev'.op = "monitor_position" /\ ev'.who = t
                /\ (ev'.mfeed = "fail" \/ ev'.close = "False"))
             => /\ tasks'[t] = [pc |-> "sleep", must_cancel |-> FALSE]
                /\ active_position' = active_position
          /\ (tasks[t].pc # "dead" /\ tasks'[t].pc = "dead")
             => /\ ev'.op = "task_cancelled" /\ ev'.who = t
                /\ tasks[t].must_cancel
          /\ (tasks'[t].must_cancel /\ ~tasks[t].must_cancel)
             => /\ ev'.op = "monitor_resume" /\ ev'.who = t
                /\ ev'.close = "True"]_vars

C17_Witness ==
    /\ ev.op = "monitor_position" /\ ev.mfeed = "fail"
    /\ active_position # None
    /\ tasks[ev.who] = [pc |-> "sleep", must_cancel |-> FALSE]
    /\ sellsSinceOpen >= 1

(* C18: a Sell order is submitted only inside an iteration of              *)
(* monitor_position that found a position set and fetched a bid at or      *)
(* above that position's target_price; an iteration whose fetch failed or  *)
(* whose bid is below the target submits nothing.                          *)
C18_SellOnlyAtTarget ==
    [][/\ ev'.side = "Sell"
          => /\ ev'.op = "monitor_position"
             /\ active_position # None
             /\ ev'.bid \in Prices
             /\ ev'.bid >= active_position[1].target_price
       /\ (ev'.op = "monitor_position" /\ active_position # None
             /\ (ev'.bid = 0 \/ ev'.bid < active_position[1].target_price))
          => ev'.side = "none" /\ ev'.close = "none"]_vars

C18_Witness ==
    /\ ev.op = "monitor_position" /\ ev.side = "Sell"
    /\ active_position # None
    /\ ev.bid >= active_position[1].target_price
    /\ ev.bid > active_position[1].entry_price

(* C19: every iteration of monitor_position starts at the creation of the  *)
(* task or out of asyncio.sleep and ends suspended, in asyncio.sleep or in *)
(* the send_notification of its close_position, which itself leads to      *)
(* asyncio.sleep; no task is ever back at the top of the loop without      *)
(* having slept, so each iteration fetches at most once per sleep.         *)
C19_SleepBetweenFetches ==
    /\ [](\A t \in TaskIds : tasks[t].pc # "loop")
    /\ [][/\ ev'.op = "monitor_position"
             => /\ tasks[ev'.who].pc \in {"start", "sleep"}
                /\ tasks'[ev'.who].pc \in {"sleep", "notify"}
          /\ ev'.op = "monitor_resume"
             => /\ tasks[ev'.who].pc = "notify"
                /\ tasks'[ev'.who].pc = "sleep"]_vars

C19_Witness ==
    /\ ev.op = "monitor_position" /\ ev.mfeed = "hit"
    /\ ev.feed = "fail" /\ ev.close = "False"
    /\ tasks[ev.who].pc = "sleep"

(* C20: a /status handled while a position is set and the fetch fails      *)
(* still ends with an answer to the user: a snapshot or a failure message. *)
C20_StatusAlwaysReplies ==
    ev.op = "status_command"
       => ev.reply \in {"snapshot", "no_position", "failure_message"}

=============================================================================
